---- MODULE Spec2Model ----
(***************************************************************************)
(* load_model_and_tokenizer of src/llmtuner/model/loader.py as a state     *)
(* machine: one action per call the loader makes, every call either        *)
(* returning or raising, and one per failure of the loader's own code.     *)
(***************************************************************************)
EXTENDS Integers, Sequences, FiniteSets, TLC

VARIABLES pc, model_args, caller_args, is_trainable, add_valuehead, zero3,
          file_name, config_kwargs, calls, built, model, des,
          vhead_path, vhead_params, error, result, source

vars == <<pc, model_args, caller_args, is_trainable, add_valuehead, zero3,
          file_name, config_kwargs, calls, built, model, des,
          vhead_path, vhead_params, error, result, source>>

(* ------------------------------ bounds -------------------------------- *)
\* longest model path, in components
MaxDepth == 2
\* longest adapter_name_or_path list
MaxAdapters == 2

(* ------------------------- strings and paths -------------------------- *)
None == "<None>"
Absent == "<absent>"

\* str.endswith
EndsWith(s, suffix) ==
    /\ Len(s) >= Len(suffix)
    /\ SubSeq(s, Len(s) - Len(suffix) + 1, Len(s)) = suffix

\* str.startswith
StartsWith(s, prefix) ==
    /\ Len(s) >= Len(prefix)
    /\ SubSeq(s, 1, Len(prefix)) = prefix

\* s.split("/") : the pieces of s between slashes, empty pieces included
RECURSIVE SplitFrom(_, _, _, _)
SplitFrom(s, i, cur, acc) ==
    IF i > Len(s) THEN Append(acc, cur)
    ELSE IF SubSeq(s, i, i) = "/" THEN SplitFrom(s, i + 1, "", Append(acc, cur))
    ELSE SplitFrom(s, i + 1, cur \o SubSeq(s, i, i), acc)

Split(s) == SplitFrom(s, 1, "", <<>>)

\* "/".join(parts)
RECURSIVE JoinParts(_)
JoinParts(parts) ==
    IF Len(parts) = 0 THEN ""
    ELSE IF Len(parts) = 1 THEN parts[1]
    ELSE parts[1] \o "/" \o JoinParts(Tail(parts))

\* pathlib.Path(s): the root and the components; empty and "." components
\* are dropped, ".." is kept.  Exactly two leading slashes are kept as the
\* root "//"; one, or three and more, make the root "/"
Path(s) ==
    [root  |-> IF StartsWith(s, "//") /\ ~StartsWith(s, "///") THEN "//"
               ELSE IF StartsWith(s, "/") THEN "/"
               ELSE "",
     parts |-> SelectSeq(Split(s), LAMBDA c : c # "" /\ c # ".")]

\* Path.name
PathName(p) == IF Len(p.parts) = 0 THEN "" ELSE p.parts[Len(p.parts)]

\* Path.parent
PathParent(p) ==
    IF Len(p.parts) = 0 THEN p
    ELSE [root |-> p.root, parts |-> SubSeq(p.parts, 1, Len(p.parts) - 1)]

\* str(Path)
PathStr(p) ==
    IF p.root = "" /\ Len(p.parts) = 0 THEN "."
    ELSE p.root \o JoinParts(p.parts)

\* os.path.join(a, b)
OsPathJoin(a, b) ==
    IF StartsWith(b, "/") THEN b
    ELSE IF a = "" \/ EndsWith(a, "/") THEN a \o b
    ELSE a \o "/" \o b

(* ------------------------------ inputs -------------------------------- *)
\* a directory name that ends in "tensors" but not in ".tensors", and a
\* container file name
Components == {"llama-tensors", "model.tensors"}

ComponentSeqs == UNION {[1..n -> Components] : n \in 1..MaxDepth}

\* how a path may start: relative, absolute, and with the two slashes that
\* pathlib keeps as a root of their own
Roots == {"", "/", "//"}

\* the model_name_or_path strings a caller passes
ModelPaths == {r \o JoinParts(q) : r \in Roots, q \in ComponentSeqs}

\* adapter_name_or_path: None, written <<>>, or a non-empty list of
\* checkpoint directories
NoAdapters == <<>>
AdapterLists ==
    {[i \in 1..n |-> "adapter" \o ToString(i)] : n \in 0..MaxAdapters}

ComputeDtype == "bfloat16"

ModelArguments ==
    [model_name_or_path   : ModelPaths,
     adapter_name_or_path : AdapterLists,
     compute_dtype        : {ComputeDtype},
     flash_attn           : BOOLEAN,
     quantization_bit     : {None, "4"},
     cache_dir            : {None},
     model_revision       : {"main"},
     hf_hub_token         : {None}]

(* --------------------------- opaque objects --------------------------- *)
\* keyword arguments that are not passed
NoKwargs ==
    [trust_remote_code |-> Absent, cache_dir |-> Absent, revision |-> Absent,
     token |-> Absent, use_flash_attention_2 |-> Absent,
     quantization_config |-> Absent]

\* no model constructed yet
NotBuilt ==
    [fn |-> None, path |-> Absent, config |-> Absent, torch_dtype |-> Absent,
     low_cpu_mem_usage |-> Absent, kwargs |-> NoKwargs]

\* the model object: how it was made, whether its weights are in place, how
\* often it was wrapped with a value head, each parameter group's
\* requires_grad ("absent", "trainable", "frozen") and its train/eval mode
NoModel ==
    [via |-> None, filled |-> FALSE, wrapped |-> 0, vhead_loaded |-> FALSE,
     params |-> [base |-> "absent", adapter |-> "absent", vhead |-> "absent"],
     training |-> FALSE, quantization_method |-> Absent, dtype |-> Absent]

\* mutant: only the base model's parameters are frozen
RequiresGradFalse_BaseOnly(params) ==
    [params EXCEPT !.base = IF @ = "absent" THEN "absent" ELSE "frozen"]

\* nn.Module.requires_grad_(False): every parameter there is gets frozen
RequiresGradFalse(params) ==
    [g \in DOMAIN params |-> IF params[g] = "absent" THEN "absent" ELSE "frozen"]

\* patcher.configure_flashattn writes the attention backend into the kwargs
ConfigureFlashattnEffect(kwargs, args) ==
    IF args.flash_attn THEN [kwargs EXCEPT !.use_flash_attention_2 = "True"]
    ELSE kwargs

\* patcher.configure_quantization writes the quantization config into the kwargs
ConfigureQuantizationEffect(kwargs, args) ==
    IF args.quantization_bit # None
    THEN [kwargs EXCEPT !.quantization_config = "bnb-" \o args.quantization_bit]
    ELSE kwargs

(* ------------------------------ control ------------------------------- *)
TensorsSuffix == ".tensors"

\* mutant: the suffix is tested without its dot
IsTensorsFile_NoDot == EndsWith(file_name, "tensors")

\* line 76
IsTensorsFile == EndsWith(file_name, TensorsSuffix)

\* mutant: the first adapter path is taken instead of the last
VheadPath_FirstAdapter ==
    IF model_args.adapter_name_or_path # NoAdapters
    THEN model_args.adapter_name_or_path[1]
    ELSE model_args.model_name_or_path

\* lines 117-120
VheadPath ==
    IF model_args.adapter_name_or_path # NoAdapters
    THEN model_args.adapter_name_or_path[Len(model_args.adapter_name_or_path)]
    ELSE model_args.model_name_or_path

\* the path argument of the external call made at step op
ArgOf(op) ==
    CASE op \in {"try_download_model_from_ms", "AutoTokenizer.from_pretrained",
                 "AutoConfig.from_pretrained", "from_pretrained"}
              -> model_args.model_name_or_path
      [] op = "TensorDeserializer"
              -> OsPathJoin(model_args.model_name_or_path, file_name)
      [] op = "load_valuehead_params" -> vhead_path
      [] OTHER -> ""

\* the callable invoked at a step: a callable invoked from several lines has
\* one step per line, named callable@line
OpOf(step) ==
    CASE step \in {"get_mem_usage@78", "get_mem_usage@91"} -> "get_mem_usage"
      [] step \in {"time.time@79", "time.time@85"} -> "time.time"
      [] step \in {"total_tensor_bytes@88", "total_tensor_bytes@90"}
              -> "total_tensor_bytes"
      [] step \in {"convert_bytes@88", "convert_bytes@90"} -> "convert_bytes"
      [] step \in {"print@93", "print@94", "print@95"} -> "print"
      [] step \in {"is_deepspeed_zero3_enabled@101",
                   "is_deepspeed_zero3_enabled@107"}
              -> "is_deepspeed_zero3_enabled"
      [] step \in {"logger.info@125", "logger.info@135", "logger.info@140"}
              -> "logger.info"
      [] OTHER -> step

\* the source line of the call made at a step
LineOf(step) ==
    CASE step = "try_download_model_from_ms" -> 47
      [] step = "AutoTokenizer.from_pretrained" -> 60
      [] step = "AutoConfig.from_pretrained" -> 67
      [] step = "patch_tokenizer" -> 69
      [] step = "patch_config" -> 70
      [] step = "configure_rope" -> 71
      [] step = "configure_flashattn" -> 72
      [] step = "configure_longlora" -> 73
      [] step = "configure_quantization" -> 74
      [] step = "get_mem_usage@78" -> 78
      [] step = "time.time@79" -> 79
      [] step = "no_init_or_tensor" -> 80
      [] step = "from_config" -> 81
      [] step = "TensorDeserializer" -> 83
      [] step = "load_into_module" -> 84
      [] step = "time.time@85" -> 85
      [] step \in {"total_tensor_bytes@88", "convert_bytes@88"} -> 88
      [] step \in {"total_tensor_bytes@90", "convert_bytes@90"} -> 90
      [] step = "get_mem_usage@91" -> 91
      [] step = "close" -> 92
      [] step = "print@93" -> 93
      [] step = "print@94" -> 94
      [] step = "print@95" -> 95
      [] step = "from_pretrained" -> 97
      [] step = "is_deepspeed_zero3_enabled@101" -> 101
      [] step = "patch_model" -> 105
      [] step = "register_autoclass" -> 106
      [] step = "is_deepspeed_zero3_enabled@107" -> 107
      [] step = "resize_embedding_layer" -> 108
      [] step = "prepare_model_for_training" -> 110
      [] step = "init_adapter" -> 111
      [] step = "wrap_valuehead" -> 114
      [] step = "patch_valuehead_model" -> 115
      [] step = "load_valuehead_params" -> 122
      [] step = "load_state_dict" -> 124
      [] step = "logger.info@125" -> 125
      [] step = "requires_grad_" -> 128
      [] step = "to" -> 129
      [] step = "eval" -> 130
      [] step = "train" -> 132
      [] step = "count_parameters" -> 134
      [] step = "logger.info@135" -> 135
      [] step = "logger.info@140" -> 140

\* the log entry of the call made at a step
CallAt(step) == [op |-> OpOf(step), line |-> LineOf(step), arg |-> ArgOf(step)]

\* line 105 onwards
AfterWeights == "patch_model"
\* line 107: the branch on what is_deepspeed_zero3_enabled() returned
AfterRegister == IF ~zero3 THEN "resize_embedding_layer"
                 ELSE IF is_trainable THEN "prepare_model_for_training"
                 ELSE "init_adapter"
\* mutant: adapters are attached only on the training branch
AfterResize_AdapterOnlyWhenTraining ==
    IF is_trainable THEN "prepare_model_for_training"
    ELSE IF add_valuehead THEN "wrap_valuehead"
    ELSE IF ~is_trainable THEN "requires_grad_" ELSE "train"

\* line 110
AfterResize == IF is_trainable THEN "prepare_model_for_training" ELSE "init_adapter"
\* line 127
ModeSwitch == IF ~is_trainable THEN "requires_grad_" ELSE "train"
\* line 113
AfterAdapter == IF add_valuehead THEN "wrap_valuehead" ELSE ModeSwitch
\* line 139
AfterCount == IF ~is_trainable THEN "logger.info@140" ELSE "return"

\* steps that are calls into external code and so may raise
Failable ==
    {"try_download_model_from_ms", "AutoTokenizer.from_pretrained",
     "AutoConfig.from_pretrained", "patch_tokenizer", "patch_config",
     "configure_rope", "configure_flashattn", "configure_longlora",
     "configure_quantization", "get_mem_usage@78", "time.time@79",
     "no_init_or_tensor", "from_config", "TensorDeserializer",
     "load_into_module", "time.time@85", "total_tensor_bytes@88",
     "convert_bytes@88", "total_tensor_bytes@90", "convert_bytes@90",
     "get_mem_usage@91", "close", "print@93", "print@94", "print@95",
     "is_deepspeed_zero3_enabled@101", "from_pretrained",
     "patch_model", "register_autoclass", "is_deepspeed_zero3_enabled@107",
     "resize_embedding_layer", "prepare_model_for_training", "init_adapter",
     "wrap_valuehead", "patch_valuehead_model", "load_valuehead_params",
     "load_state_dict", "logger.info@125", "requires_grad_", "to", "eval",
     "train", "count_parameters", "logger.info@135", "logger.info@140"}

Init ==
    /\ pc = "try_download_model_from_ms"
    /\ model_args \in ModelArguments
    /\ caller_args = model_args
    /\ is_trainable \in BOOLEAN
    /\ add_valuehead \in BOOLEAN
    /\ zero3 \in BOOLEAN
    /\ file_name = None
    /\ config_kwargs = NoKwargs
    /\ calls = <<>>
    /\ built = NotBuilt
    /\ model = NoModel
    /\ des = "none"
    /\ vhead_path = None
    /\ vhead_params = "unset"
    /\ error = None
    /\ result = None
    /\ source = None

\* the call of a step is made and returns; control moves to next
Invoke(step, next) ==
    /\ pc = step
    /\ calls' = Append(calls, CallAt(step))
    /\ pc' = next
    /\ UNCHANGED <<caller_args, is_trainable, add_valuehead, zero3, error,
                   source>>

\* mutant: a raising call is caught and made again
Raise_Retry ==
    /\ pc \in Failable
    /\ calls' = Append(calls, CallAt(pc))
    /\ UNCHANGED <<pc, model_args, caller_args, is_trainable, add_valuehead,
                   zero3, file_name, config_kwargs, built, model, des,
                   vhead_path, vhead_params, error, result, source>>

\* the external call of the current step raises: nothing catches it
Raise ==
    /\ pc \in Failable
    /\ calls' = Append(calls, CallAt(pc))
    /\ error' = pc
    /\ pc' = "raised"
    /\ UNCHANGED <<model_args, caller_args, is_trainable, add_valuehead, zero3,
                   file_name, config_kwargs, built, model, des, vhead_path,
                   vhead_params, result, source>>

\* failures that come with no new call: no_init_or_tensor raising after the
\* lambda has run (line 80), the division by a duration of 0 (line 90, when
\* time.time() returned the same value twice) and the division by a
\* parameter count of 0 (line 136), both before the call they are an
\* argument of
ErrorBetweenCalls(step) ==
    CASE step = "no_init_or_tensor:return" -> "no_init_or_tensor"
      [] step = "convert_bytes@90" -> "ZeroDivisionError@90"
      [] step = "logger.info@135" -> "ZeroDivisionError@136"

RaiseBetweenCalls ==
    /\ pc \in {"no_init_or_tensor:return", "convert_bytes@90", "logger.info@135"}
    /\ error' = ErrorBetweenCalls(pc)
    /\ pc' = "raised"
    /\ UNCHANGED <<model_args, caller_args, is_trainable, add_valuehead, zero3,
                   file_name, config_kwargs, calls, built, model, des,
                   vhead_path, vhead_params, result, source>>

(* ------------------------ lines 47-67: sources ------------------------ *)
\* where a registry download puts the model
CacheDir == "/cache/hub/"
DownloadedPath(p) == CacheDir \o p

\* what try_download_model_from_ms may leave in model_args.model_name_or_path:
\* the path as it is (a local path) or the place it was downloaded to
ResolvedPaths(p) == {p, DownloadedPath(p)}

\* line 47: the callee is handed model_args itself and may rewrite its path
TryDownload ==
    /\ pc = "try_download_model_from_ms"
    /\ calls' = Append(calls, CallAt(pc))
    /\ \E p \in ResolvedPaths(model_args.model_name_or_path) :
          /\ model_args' = [model_args EXCEPT !.model_name_or_path = p]
          /\ source' = p
    /\ pc' = "split_path"
    /\ UNCHANGED <<caller_args, is_trainable, add_valuehead, zero3, file_name,
                   config_kwargs, built, model, des, vhead_path, vhead_params,
                   error, result>>

\* lines 49-58: the kwargs are set up, the path is split into directory and
\* file name and the directory is written back into model_args
SplitPath ==
    /\ pc = "split_path"
    /\ config_kwargs' =
           [NoKwargs EXCEPT !.trust_remote_code = "True",
                            !.cache_dir = model_args.cache_dir,
                            !.revision = model_args.model_revision,
                            !.token = model_args.hf_hub_token]
    /\ file_name' = PathName(Path(model_args.model_name_or_path))
    /\ model_args' =
           [model_args EXCEPT !.model_name_or_path =
               PathStr(PathParent(Path(model_args.model_name_or_path)))]
    /\ pc' = "AutoTokenizer.from_pretrained"
    /\ UNCHANGED <<caller_args, is_trainable, add_valuehead, zero3, calls,
                   built, model, des, vhead_path, vhead_params, error, result,
                   source>>

\* lines 60-66
LoadTokenizer ==
    /\ Invoke("AutoTokenizer.from_pretrained", "AutoConfig.from_pretrained")
    /\ UNCHANGED <<model_args, file_name, config_kwargs, built, model, des,
                   vhead_path, vhead_params, result>>

\* line 67
LoadConfig ==
    /\ Invoke("AutoConfig.from_pretrained", "patch_tokenizer")
    /\ UNCHANGED <<model_args, file_name, config_kwargs, built, model, des,
                   vhead_path, vhead_params, result>>

(* ------------------- lines 69-74: pre-load patches -------------------- *)
\* line 69
PatchTokenizer ==
    /\ Invoke("patch_tokenizer", "patch_config")
    /\ UNCHANGED <<model_args, file_name, config_kwargs, built, model, des,
                   vhead_path, vhead_params, result>>

\* line 70
PatchConfig ==
    /\ Invoke("patch_config", "configure_rope")
    /\ UNCHANGED <<model_args, file_name, config_kwargs, built, model, des,
                   vhead_path, vhead_params, result>>

\* line 71
ConfigureRope ==
    /\ Invoke("configure_rope", "configure_flashattn")
    /\ UNCHANGED <<model_args, file_name, config_kwargs, built, model, des,
                   vhead_path, vhead_params, result>>

\* line 72
ConfigureFlashattn ==
    /\ Invoke("configure_flashattn", "configure_longlora")
    /\ config_kwargs' = ConfigureFlashattnEffect(config_kwargs, model_args)
    /\ UNCHANGED <<model_args, file_name, built, model, des,
                   vhead_path, vhead_params, result>>

\* mutant: the weights are loaded right after configure_longlora
ConfigureLonglora_SkipsQuantization ==
    /\ Invoke("configure_longlora",
              IF IsTensorsFile THEN "get_mem_usage@78"
              ELSE "is_deepspeed_zero3_enabled@101")
    /\ UNCHANGED <<model_args, file_name, config_kwargs, built, model, des,
                   vhead_path, vhead_params, result>>

\* line 73
ConfigureLonglora ==
    /\ Invoke("configure_longlora", "configure_quantization")
    /\ UNCHANGED <<model_args, file_name, config_kwargs, built, model, des,
                   vhead_path, vhead_params, result>>

\* lines 74 and 76: the last patch, then the branch on the file name
ConfigureQuantization ==
    /\ Invoke("configure_quantization",
              IF IsTensorsFile THEN "get_mem_usage@78"
              ELSE "is_deepspeed_zero3_enabled@101")
    /\ config_kwargs' = ConfigureQuantizationEffect(config_kwargs, model_args)
    /\ UNCHANGED <<model_args, file_name, built, model, des,
                   vhead_path, vhead_params, result>>

(* ---------------------- lines 76-103: the weights --------------------- *)
\* line 78
MemUsageBefore ==
    /\ Invoke("get_mem_usage@78", "time.time@79")
    /\ UNCHANGED <<model_args, file_name, config_kwargs, built, model, des,
                   vhead_path, vhead_params, result>>

\* line 79
TimeStart ==
    /\ Invoke("time.time@79", "no_init_or_tensor")
    /\ UNCHANGED <<model_args, file_name, config_kwargs, built, model, des,
                   vhead_path, vhead_params, result>>

\* line 80: no_init_or_tensor is entered; it calls the lambda
NoInitOrTensor ==
    /\ Invoke("no_init_or_tensor", "from_config")
    /\ UNCHANGED <<model_args, file_name, config_kwargs, built, model, des,
                   vhead_path, vhead_params, result>>

\* line 81, inside no_init_or_tensor: an empty shell from the config alone
FromConfig ==
    /\ Invoke("from_config", "no_init_or_tensor:return")
    /\ built' = [NotBuilt EXCEPT !.fn = "from_config", !.config = "config"]
    /\ UNCHANGED <<model_args, file_name, config_kwargs, model, des,
                   vhead_path, vhead_params, result>>

\* line 80: no_init_or_tensor returns the shell and the local model is bound
NoInitOrTensorReturn ==
    /\ pc = "no_init_or_tensor:return"
    /\ model' = [NoModel EXCEPT !.via = "from_config", !.params.base = "trainable",
                                !.training = TRUE]
    /\ pc' = "TensorDeserializer"
    /\ UNCHANGED <<model_args, caller_args, is_trainable, add_valuehead, zero3,
                   file_name, config_kwargs, calls, built, des, vhead_path,
                   vhead_params, error, result, source>>

\* line 83
NewDeserializer ==
    /\ Invoke("TensorDeserializer", "load_into_module")
    /\ des' = "open"
    /\ UNCHANGED <<model_args, file_name, config_kwargs, built, model,
                   vhead_path, vhead_params, result>>

\* line 84
LoadIntoModule ==
    /\ Invoke("load_into_module", "time.time@85")
    /\ model' = [model EXCEPT !.filled = TRUE]
    /\ UNCHANGED <<model_args, file_name, config_kwargs, built, des,
                   vhead_path, vhead_params, result>>

\* line 85
TimeEnd ==
    /\ Invoke("time.time@85", "total_tensor_bytes@88")
    /\ UNCHANGED <<model_args, file_name, config_kwargs, built, model, des,
                   vhead_path, vhead_params, result>>

\* line 88: the size is read off the deserializer
TotalTensorBytes88 ==
    /\ Invoke("total_tensor_bytes@88", "convert_bytes@88")
    /\ UNCHANGED <<model_args, file_name, config_kwargs, built, model, des,
                   vhead_path, vhead_params, result>>

\* line 88
ConvertBytes88 ==
    /\ Invoke("convert_bytes@88", "total_tensor_bytes@90")
    /\ UNCHANGED <<model_args, file_name, config_kwargs, built, model, des,
                   vhead_path, vhead_params, result>>

\* lines 89-90: the size is read again for the rate
TotalTensorBytes90 ==
    /\ Invoke("total_tensor_bytes@90", "convert_bytes@90")
    /\ UNCHANGED <<model_args, file_name, config_kwargs, built, model, des,
                   vhead_path, vhead_params, result>>

\* line 90: the division by the duration, then the conversion
ConvertBytes90 ==
    /\ Invoke("convert_bytes@90", "get_mem_usage@91")
    /\ UNCHANGED <<model_args, file_name, config_kwargs, built, model, des,
                   vhead_path, vhead_params, result>>

\* line 91
MemUsageAfter ==
    /\ Invoke("get_mem_usage@91", "close")
    /\ UNCHANGED <<model_args, file_name, config_kwargs, built, model, des,
                   vhead_path, vhead_params, result>>

\* line 92
CloseDeserializer ==
    /\ Invoke("close", "print@93")
    /\ des' = "closed"
    /\ UNCHANGED <<model_args, file_name, config_kwargs, built, model,
                   vhead_path, vhead_params, result>>

\* line 93
PrintDeserialized ==
    /\ Invoke("print@93", "print@94")
    /\ UNCHANGED <<model_args, file_name, config_kwargs, built, model, des,
                   vhead_path, vhead_params, result>>

\* line 94
PrintMemBefore ==
    /\ Invoke("print@94", "print@95")
    /\ UNCHANGED <<model_args, file_name, config_kwargs, built, model, des,
                   vhead_path, vhead_params, result>>

\* line 95
PrintMemAfter ==
    /\ Invoke("print@95", AfterWeights)
    /\ UNCHANGED <<model_args, file_name, config_kwargs, built, model, des,
                   vhead_path, vhead_params, result>>

\* line 101: an argument of from_pretrained, evaluated before the call
Zero3Enabled101 ==
    /\ Invoke("is_deepspeed_zero3_enabled@101", "from_pretrained")
    /\ UNCHANGED <<model_args, file_name, config_kwargs, built, model, des,
                   vhead_path, vhead_params, result>>

\* lines 97-103
FromPretrained ==
    /\ Invoke("from_pretrained", AfterWeights)
    /\ built' = [fn |-> "from_pretrained",
                 path |-> model_args.model_name_or_path,
                 config |-> "config",
                 torch_dtype |-> model_args.compute_dtype,
                 low_cpu_mem_usage |-> IF zero3 THEN "False" ELSE "True",
                 kwargs |-> config_kwargs]
    /\ model' = [NoModel EXCEPT !.via = "from_pretrained", !.filled = TRUE,
                                !.params.base = "trainable",
                                !.quantization_method = config_kwargs.quantization_config,
                                !.dtype = model_args.compute_dtype]
    /\ UNCHANGED <<model_args, file_name, config_kwargs, des,
                   vhead_path, vhead_params, result>>
(* --------------------- lines 105-111: after loading ------------------- *)
\* line 105
PatchModel ==
    /\ Invoke("patch_model", "register_autoclass")
    /\ UNCHANGED <<model_args, file_name, config_kwargs, built, model, des,
                   vhead_path, vhead_params, result>>

\* line 106
RegisterAutoclass ==
    /\ Invoke("register_autoclass", "is_deepspeed_zero3_enabled@107")
    /\ UNCHANGED <<model_args, file_name, config_kwargs, built, model, des,
                   vhead_path, vhead_params, result>>

\* line 107
Zero3Enabled107 ==
    /\ Invoke("is_deepspeed_zero3_enabled@107", AfterRegister)
    /\ UNCHANGED <<model_args, file_name, config_kwargs, built, model, des,
                   vhead_path, vhead_params, result>>

\* line 108, reached only without DeepSpeed ZeRO-3
ResizeEmbeddingLayer ==
    /\ Invoke("resize_embedding_layer", AfterResize)
    /\ UNCHANGED <<model_args, file_name, config_kwargs, built, model, des,
                   vhead_path, vhead_params, result>>

\* line 110, reached only when is_trainable
PrepareModelForTraining ==
    /\ Invoke("prepare_model_for_training", "init_adapter")
    /\ UNCHANGED <<model_args, file_name, config_kwargs, built, model, des,
                   vhead_path, vhead_params, result>>

\* what init_adapter may leave behind: no adapter parameters (none asked
\* for, or merged), trainable ones, or frozen ones
AdapterOutcomes == {"absent", "trainable", "frozen"}

\* line 111
InitAdapter ==
    /\ Invoke("init_adapter", AfterAdapter)
    /\ \E a \in AdapterOutcomes : model' = [model EXCEPT !.params.adapter = a]
    /\ UNCHANGED <<model_args, file_name, config_kwargs, built, des,
                   vhead_path, vhead_params, result>>

(* --------------------- lines 113-125: the value head ------------------ *)
\* line 114: model is rebound to the wrapper, a new object that may or may
\* not show the wrapped model's quantization_method
WrapValuehead ==
    /\ Invoke("wrap_valuehead", "patch_valuehead_model")
    /\ \E q \in {Absent, model.quantization_method} :
          model' = [model EXCEPT !.wrapped = @ + 1, !.params.vhead = "trainable",
                                 !.quantization_method = q]
    /\ UNCHANGED <<model_args, file_name, config_kwargs, built, des,
                   vhead_path, vhead_params, result>>

\* line 115
PatchValueheadModel ==
    /\ Invoke("patch_valuehead_model", "vhead_path")
    /\ UNCHANGED <<model_args, file_name, config_kwargs, built, model, des,
                   vhead_path, vhead_params, result>>

\* lines 117-120: the local vhead_path is assigned
SetVheadPath ==
    /\ pc = "vhead_path"
    /\ vhead_path' = VheadPath
    /\ pc' = "load_valuehead_params"
    /\ UNCHANGED <<model_args, caller_args, is_trainable, add_valuehead, zero3,
                   file_name, config_kwargs, calls, built, model, des,
                   vhead_params, error, result, source>>

\* lines 122-123: the lookup finds the parameters or returns None
LoadValueheadParams ==
    /\ \E found \in {"found", "none"} :
          /\ vhead_params' = found
          /\ Invoke("load_valuehead_params",
                    IF found # "none" THEN "load_state_dict" ELSE ModeSwitch)
    /\ UNCHANGED <<model_args, file_name, config_kwargs, built, model, des,
                   vhead_path, result>>

\* line 124: strict=False
LoadStateDict ==
    /\ Invoke("load_state_dict", "logger.info@125")
    /\ model' = [model EXCEPT !.vhead_loaded = TRUE]
    /\ UNCHANGED <<model_args, file_name, config_kwargs, built, des,
                   vhead_path, vhead_params, result>>

\* line 125
LogValuehead ==
    /\ Invoke("logger.info@125", ModeSwitch)
    /\ UNCHANGED <<model_args, file_name, config_kwargs, built, model, des,
                   vhead_path, vhead_params, result>>

(* ------------------------ lines 127-142: the mode --------------------- *)
\* lines 128-129
RequiresGrad ==
    /\ Invoke("requires_grad_",
              IF model.quantization_method = Absent THEN "to" ELSE "eval")
    /\ model' = [model EXCEPT !.params = RequiresGradFalse(@)]
    /\ UNCHANGED <<model_args, file_name, config_kwargs, built, des,
                   vhead_path, vhead_params, result>>

\* line 129, skipped for a quantized model
ToComputeDtype ==
    /\ Invoke("to", "eval")
    /\ model' = [model EXCEPT !.dtype = model_args.compute_dtype]
    /\ UNCHANGED <<model_args, file_name, config_kwargs, built, des,
                   vhead_path, vhead_params, result>>

\* line 130
Eval ==
    /\ Invoke("eval", "count_parameters")
    /\ model' = [model EXCEPT !.training = FALSE]
    /\ UNCHANGED <<model_args, file_name, config_kwargs, built, des,
                   vhead_path, vhead_params, result>>

\* line 132
Train ==
    /\ Invoke("train", "count_parameters")
    /\ model' = [model EXCEPT !.training = TRUE]
    /\ UNCHANGED <<model_args, file_name, config_kwargs, built, des,
                   vhead_path, vhead_params, result>>

\* line 134
CountParameters ==
    /\ Invoke("count_parameters", "logger.info@135")
    /\ UNCHANGED <<model_args, file_name, config_kwargs, built, model, des,
                   vhead_path, vhead_params, result>>

\* lines 135-139
LogParameters ==
    /\ Invoke("logger.info@135", AfterCount)
    /\ UNCHANGED <<model_args, file_name, config_kwargs, built, model, des,
                   vhead_path, vhead_params, result>>

\* line 140, reached only when not is_trainable
LogInferenceOnly ==
    /\ Invoke("logger.info@140", "return")
    /\ UNCHANGED <<model_args, file_name, config_kwargs, built, model, des,
                   vhead_path, vhead_params, result>>

\* line 142
Return ==
    /\ pc = "return"
    /\ result' = "model,tokenizer"
    /\ pc' = "returned"
    /\ UNCHANGED <<model_args, caller_args, is_trainable, add_valuehead, zero3,
                   file_name, config_kwargs, calls, built, model, des,
                   vhead_path, vhead_params, error, source>>

Next ==
    \/ TryDownload \/ SplitPath \/ LoadTokenizer \/ LoadConfig
    \/ PatchTokenizer \/ PatchConfig \/ ConfigureRope \/ ConfigureFlashattn
    \/ ConfigureLonglora \/ ConfigureQuantization
    \/ MemUsageBefore \/ TimeStart \/ NoInitOrTensor \/ FromConfig
    \/ NoInitOrTensorReturn
    \/ NewDeserializer \/ LoadIntoModule \/ TimeEnd
    \/ TotalTensorBytes88 \/ ConvertBytes88 \/ TotalTensorBytes90
    \/ ConvertBytes90 \/ MemUsageAfter \/ CloseDeserializer
    \/ PrintDeserialized \/ PrintMemBefore \/ PrintMemAfter
    \/ Zero3Enabled101 \/ FromPretrained
    \/ PatchModel \/ RegisterAutoclass \/ Zero3Enabled107
    \/ ResizeEmbeddingLayer \/ PrepareModelForTraining \/ InitAdapter
    \/ WrapValuehead \/ PatchValueheadModel \/ SetVheadPath
    \/ LoadValueheadParams \/ LoadStateDict \/ LogValuehead
    \/ RequiresGrad \/ ToComputeDtype \/ Eval \/ Train \/ CountParameters
    \/ LogParameters \/ LogInferenceOnly
    \/ Return
    \/ Raise
    \/ RaiseBetweenCalls

Spec == Init /\ [][Next]_vars
(* ----------------------- reading the call log ------------------------ *)
Ops == [i \in DOMAIN calls |-> calls[i].op]
Count(op) == Cardinality({i \in DOMAIN calls : calls[i].op = op})
Called(op) == \E i \in DOMAIN calls : calls[i].op = op
\* The log grows by one entry at a time and no entry is ever changed, so a
\* property of every entry and the entries before it holds in every state
\* exactly when it holds of the newest entry in every state.
NewestIs(op) == calls # <<>> /\ calls[Len(calls)].op = op
NewestIn(ops) == calls # <<>> /\ calls[Len(calls)].op \in ops
Earlier(op) == \E j \in 1..(Len(calls) - 1) : calls[j].op = op
\* every call of b comes after a call of a
Precedes(a, b) == NewestIs(b) => Earlier(a)
\* op is never called a second time
AtMostOnce(op) == NewestIs(op) => ~Earlier(op)
\* none of ops is ever called
NeverCalled(ops) == ~NewestIn(ops)
IsPrefix(q, r) == Len(q) <= Len(r) /\ q = SubSeq(r, 1, Len(q))
Terminated == pc \in {"returned", "raised"}

PatchOrder ==
    <<"patch_tokenizer", "patch_config", "configure_rope", "configure_flashattn",
      "configure_longlora", "configure_quantization">>
PatchSet == {PatchOrder[i] : i \in DOMAIN PatchOrder}
Materialize == {"from_config", "load_into_module", "from_pretrained"}
PatchesIn(q) == SelectSeq(q, LAMBDA op : op \in PatchSet)

\* where the tokenizer and the config were read from
ReadLocation ==
    calls[CHOOSE i \in DOMAIN calls : calls[i].op = "AutoConfig.from_pretrained"].arg

\* the caller's path names a .tensors file (the paths given have no trailing
\* slash, so the last component ends in ".tensors" exactly when the string does)
GivenTensors == EndsWith(caller_args.model_name_or_path, ".tensors")

(* ------------------------------ claims -------------------------------- *)
\* C1: the six pre-load patches run at most once each and only in the fixed
\* order, and whenever a weight materialization step (from_config,
\* load_into_module, from_pretrained) has started, all six had run, in
\* order and exactly once, before it.
C1_PatchesBeforeWeights ==
    /\ NewestIn(PatchSet) => IsPrefix(PatchesIn(Ops), PatchOrder)
    /\ NewestIn(Materialize) => PatchesIn(Ops) = PatchOrder
    /\ pc = "returned" => PatchesIn(Ops) = PatchOrder

C1_Witness ==
    /\ pc = "returned"
    /\ Called("load_into_module")
    /\ PatchesIn(Ops) = PatchOrder

\* C2: init_adapter runs at most once, has run before the value head is
\* attached, patched or loaded, and has run exactly once in every run that
\* returns, with or without a value head.
C2_AdapterBeforeValuehead ==
    /\ AtMostOnce("init_adapter")
    /\ Precedes("init_adapter", "wrap_valuehead")
    /\ Precedes("init_adapter", "patch_valuehead_model")
    /\ Precedes("init_adapter", "load_valuehead_params")
    /\ Precedes("init_adapter", "load_state_dict")
    /\ pc = "returned" => Count("init_adapter") = 1

C2_Witness ==
    /\ pc = "returned"
    /\ add_valuehead
    /\ Called("wrap_valuehead")
    /\ Called("load_state_dict")

\* C3: the file name alone selects the loading path.  For a path whose last
\* component ends in ".tensors" from_pretrained is never called, the model is
\* an empty shell from the config filled by one load_into_module from a
\* deserializer opened on the given file (where line 47 resolved it); for
\* any other path from_pretrained is called once and no deserializer is
\* created.
C3_PathSelection ==
    /\ GivenTensors =>
          /\ NeverCalled({"from_pretrained"})
          /\ AtMostOnce("from_config") /\ AtMostOnce("TensorDeserializer")
          /\ AtMostOnce("load_into_module")
          /\ Precedes("from_config", "TensorDeserializer")
          /\ Precedes("TensorDeserializer", "load_into_module")
          /\ NewestIs("TensorDeserializer") =>
                Path(calls[Len(calls)].arg) = Path(source)
          /\ pc = "returned" =>
                /\ Count("from_config") = 1 /\ Count("load_into_module") = 1
                /\ model.via = "from_config" /\ model.filled
    /\ ~GivenTensors =>
          /\ NeverCalled({"from_config", "TensorDeserializer", "load_into_module"})
          /\ des = "none"
          /\ AtMostOnce("from_pretrained")
          /\ pc = "returned" =>
                Count("from_pretrained") = 1 /\ model.via = "from_pretrained"

C3_Witness ==
    /\ pc = "returned"
    /\ caller_args.model_name_or_path = "model.tensors"
    /\ model.via = "from_config" /\ model.filled

\* the entry of the log that belongs to the step that raised: the newest
\* one, or, when no_init_or_tensor raises after the from_config call it
\* encloses, the one before the newest
RaisedEntry ==
    IF /\ error = "no_init_or_tensor"
       /\ calls[Len(calls)].op = "from_config"
    THEN Len(calls) - 1
    ELSE Len(calls)

\* C4: a failing external step ends the run there: the caller gets the
\* error of the step that raised, that step is the last one invoked (with
\* nothing after it but the call it encloses), no step (no call of a line of
\* the loader) is ever invoked twice and nothing is returned.  A failure of
\* the loader's own arithmetic ends the run in the same way.
C4_FailureIsFatal ==
    /\ Cardinality({<<calls[i].op, calls[i].line>> : i \in DOMAIN calls})
          = Len(calls)
    /\ error # None =>
          /\ pc = "raised"
          /\ result = None
          /\ calls # <<>>
          /\ error \in Failable =>
                /\ RaisedEntry \in DOMAIN calls
                /\ calls[RaisedEntry].op = OpOf(error)
                /\ calls[RaisedEntry].line = LineOf(error)
    /\ result # None => error = None /\ pc = "returned"

C4_Witness ==
    /\ pc = "raised"
    /\ error = "load_into_module"
    /\ Len(calls) > 1

\* C5 (as claimed): when the loader has returned or failed, model_args is
\* what the caller passed in.
C5_ArgsUnchanged == Terminated => model_args = caller_args

\* C6 (as claimed): for a path that is not a .tensors file the tokenizer,
\* the config, the weights and (without adapter paths) the value-head
\* parameters are read from exactly the given location, as line 47 resolved
\* it; for a .tensors file the tokenizer and the config are read from its
\* directory.
C6_GivenLocationIsRead ==
    \A i \in DOMAIN calls :
        /\ (~GivenTensors /\ calls[i].op \in
                {"AutoTokenizer.from_pretrained", "AutoConfig.from_pretrained",
                 "from_pretrained"})
              => calls[i].arg = source
        /\ (~GivenTensors /\ calls[i].op = "load_valuehead_params"
                /\ caller_args.adapter_name_or_path = NoAdapters)
              => calls[i].arg = source
        /\ (GivenTensors /\ calls[i].op \in
                {"AutoTokenizer.from_pretrained", "AutoConfig.from_pretrained"})
              => calls[i].arg =
                   PathStr(PathParent(Path(source)))

\* the line that logs the parameter counts
CountLogLine == LineOf("logger.info@135")

\* everything in the model is frozen
AllFrozen == \A g \in DOMAIN model.params : model.params[g] # "trainable"

\* C7: a run that returns with is_trainable false returns a model with every
\* parameter frozen, adapter and value head included, in eval mode; one that
\* returns with is_trainable true returns it in train mode and never called
\* requires_grad_; the parameters are counted only after the mode switch.
C7_ModeFollowsIntent ==
    /\ pc = "returned" =>
          IF ~is_trainable
          THEN AllFrozen /\ ~model.training /\ ~Called("train")
          ELSE model.training /\ ~Called("requires_grad_") /\ ~Called("eval")
    /\ \A i \in DOMAIN calls :
          (calls[i].op = "count_parameters" \/ calls[i].line = CountLogLine) =>
              \E j \in 1..(i - 1) : calls[j].op \in {"eval", "train"}

C7_Witness ==
    /\ pc = "returned"
    /\ ~is_trainable
    /\ model.wrapped = 1 /\ model.vhead_loaded
    /\ model.params = [base |-> "frozen", adapter |-> "frozen", vhead |-> "frozen"]

\* C8 (as claimed): the model is constructed with the attention backend and
\* the quantization config the patches wrote into the kwargs and with the
\* requested compute dtype, on either path.
C8_SettingsReachModel ==
    built.fn # None =>
        /\ built.kwargs.use_flash_attention_2 = config_kwargs.use_flash_attention_2
        /\ built.kwargs.quantization_config = config_kwargs.quantization_config
        /\ built.torch_dtype = model_args.compute_dtype

\* C9: without add_valuehead the model is never wrapped and the value-head
\* parameters are never looked up; with it the model is wrapped once, the
\* lookup goes to the last adapter path when there are adapter paths and to
\* the location the model was read from otherwise, load_state_dict runs only
\* after the wrapping and only when the lookup found parameters, and a lookup
\* that finds nothing is no failure: the run goes on to the mode switch.
C9_OptionalValuehead ==
    /\ ~add_valuehead =>
          /\ model.wrapped = 0
          /\ NeverCalled({"wrap_valuehead", "load_valuehead_params",
                          "load_state_dict"})
    /\ model.wrapped <= 1 /\ AtMostOnce("wrap_valuehead")
    /\ (add_valuehead /\ pc = "returned") => model.wrapped = 1
    /\ NewestIs("load_valuehead_params") =>
          calls[Len(calls)].arg =
             IF caller_args.adapter_name_or_path # NoAdapters
             THEN caller_args.adapter_name_or_path[
                      Len(caller_args.adapter_name_or_path)]
             ELSE ReadLocation
    /\ Precedes("wrap_valuehead", "load_state_dict")
    /\ Called("load_state_dict") => vhead_params = "found"
    /\ vhead_params = "none" =>
          /\ error \notin {"load_valuehead_params", "load_state_dict"}
          /\ ~model.vhead_loaded
          /\ pc \in {ModeSwitch, "to", "eval", "train", "count_parameters",
                      "logger.info@135", "logger.info@140",
                      "return", "returned", "raised"}

C9_Witness ==
    /\ pc = "returned"
    /\ add_valuehead
    /\ vhead_params = "none"
    /\ model.wrapped = 1

\* C10 (as claimed): once a deserializer was created it has been closed by
\* the time the loader returns or fails.
C10_DeserializerClosed == (Terminated /\ des # "none") => des = "closed"
====
